---- MODULE Spec2Model ----
(***************************************************************************)
(* Model of pyworkflow/protocol/launch.py: launching, scheduling and       *)
(* stopping protocol executions (local direct run, local queue submission, *)
(* remote run through ssh).                                                *)
(*                                                                         *)
(* Text (command output, templates) is a sequence of tokens.  The token    *)
(* MARK stands for the literal text 'Scipion remote jobid: ', which holds  *)
(* no decimal digit; NONASCII stands for one byte outside ASCII.           *)
(***************************************************************************)
EXTENDS Integers, Sequences, FiniteSets, TLC

\* ------------------------------------------------------------------ bounds
MaxOutLen == 4
NumPids == 2

\* --------------------------------------------------------------- constants
LOCALHOST == "localhost"
UNKNOWN_JOBID == -1

Pids == 101..(100 + NumPids)

\* ------------------------------------------------------------------- text
MARK == "M"
NONASCII == "#"
Digits == {"1", "2"}
Alphabet == Digits \cup {MARK, NONASCII}

DigitVal(c) == IF c = "1" THEN 1 ELSE 2

SeqsUpTo(S, n) == UNION {[1..k -> S] : k \in 0..n}

Outputs == SeqsUpTo(Alphabet, MaxOutLen)

\* The greedy \d+ : the last index of the run of digits that starts at i.
RECURSIVE RunEnd(_, _)
RunEnd(s, i) ==
    IF i + 1 <= Len(s) /\ s[i + 1] \in Digits THEN RunEnd(s, i + 1) ELSE i

\* int() of the digits s[i..k].
RECURSIVE ToInt(_, _, _)
ToInt(s, i, k) ==
    IF k < i THEN 0 ELSE 10 * ToInt(s, i, k - 1) + DigitVal(s[k])

NoMatch == [found |-> FALSE, value |-> UNKNOWN_JOBID]

\* A variant that takes the rightmost marker.
SearchLastMarker(out) ==
    LET hits == {i \in 1..Len(out) :
                    out[i] = MARK /\ i + 1 <= Len(out) /\ out[i + 1] \in Digits}
    IN  IF hits = {} THEN NoMatch
        ELSE LET i == CHOOSE x \in hits : \A y \in hits : x >= y
             IN  [found |-> TRUE, value |-> ToInt(out, i + 1, RunEnd(out, i + 1))]

\* re.search('Scipion remote jobid: (\d+)', out): the leftmost marker that
\* a digit follows; group(1) is the maximal run of digits after it.
SearchMarker(out) ==
    LET hits == {i \in 1..Len(out) :
                    out[i] = MARK /\ i + 1 <= Len(out) /\ out[i + 1] \in Digits}
    IN  IF hits = {} THEN NoMatch
        ELSE LET i == CHOOSE x \in hits : \A y \in hits : x <= y
             IN  [found |-> TRUE, value |-> ToInt(out, i + 1, RunEnd(out, i + 1))]

\* A variant whose \d is not repeated.
SearchOneDigit(out) ==
    LET hits == {i \in 1..Len(out) : out[i] \in Digits}
    IN  IF hits = {} THEN NoMatch
        ELSE LET i == CHOOSE x \in hits : \A y \in hits : x <= y
             IN  [found |-> TRUE, value |-> DigitVal(out[i])]

\* re.search('(\d+)', str(out)): the leftmost maximal run of digits.
SearchDigits(out) ==
    LET hits == {i \in 1..Len(out) : out[i] \in Digits}
    IN  IF hits = {} THEN NoMatch
        ELSE LET i == CHOOSE x \in hits : \A y \in hits : x <= y
             IN  [found |-> TRUE, value |-> ToInt(out, i, RunEnd(out, i))]

\* out.decode(): the default codec rejects a byte outside ASCII.
Decodable(out) == \A i \in 1..Len(out) : out[i] # NONASCII

\* ------------------------------------------------------- dicts, templates
\* A dict is a function from the keys it holds to texts.
EmptyDict == [k \in {} |-> <<>>]

\* A variant of the update in which the first dict wins.
DictKeepFirst(a, b) ==
    [k \in DOMAIN a \cup DOMAIN b |-> IF k \in DOMAIN a THEN a[k] ELSE b[k]]

\* dict(a); a.update(b): the keys of both, b's value where both hold a key.
DictUpdate(a, b) ==
    [k \in DOMAIN a \cup DOMAIN b |-> IF k \in DOMAIN b THEN b[k] ELSE a[k]]

\* d[key] = text
DictSet(d, key, text) ==
    [k \in DOMAIN d \cup {key} |-> IF k = key THEN text ELSE d[k]]

\* A template is a sequence of parts: literal text or a %(KEY)s placeholder.
Lit(t) == [ph |-> FALSE, s |-> t]
Ph(k) == [ph |-> TRUE, s |-> k]

MissingKeys(tpl, d) ==
    {i \in 1..Len(tpl) : tpl[i].ph /\ tpl[i].s \notin DOMAIN d}

RECURSIVE Subst(_, _, _)
Subst(tpl, d, i) ==
    IF i > Len(tpl) THEN <<>>
    ELSE (IF tpl[i].ph THEN d[tpl[i].s] ELSE <<tpl[i].s>>) \o Subst(tpl, d, i + 1)

\* template % d: the text, or KeyError on the leftmost placeholder d lacks.
Render(tpl, d) ==
    LET miss == MissingKeys(tpl, d)
    IN  IF miss = {}
        THEN [ok |-> TRUE, text |-> Subst(tpl, d, 1), key |-> ""]
        ELSE [ok |-> FALSE, text |-> <<>>,
              key |-> tpl[CHOOSE i \in miss : \A j \in miss : i <= j].s]

\* ------------------------------------------------- the hosts' configuration
HostNames == {LOCALHOST, "cluster", "node"}

\* getHostConfig(): the configuration stored for the protocol's host.
HostConfig(hostName) ==
    [address |-> IF hostName = LOCALHOST THEN "localhost" ELSE hostName \o ".example.org",
     scipionHome |-> "/opt/scipion",
     scipionConfig |-> IF hostName = "cluster" THEN "scipion.conf" ELSE "None",
     submitTemplate |-> <<Lit("#PBS -N "), Ph("JOB_NAME"), Lit("#PBS -q "),
                          Ph("JOB_QUEUE"), Lit("#PBS -l mem="), Ph("JOB_MEMORY"),
                          Ph("JOB_COMMAND")>>,
     submitCommand |-> <<Lit("qsub -l walltime="), Ph("JOB_HOURS"), Ph("JOB_SCRIPT")>>,
     cancelCommand |-> <<Lit("qdel "), Ph("JOB_ID")>>,
     queuesDefault |-> [JOB_NAME |-> <<"scipion">>, JOB_MEMORY |-> <<"4gb">>,
                        JOB_COMMAND |-> <<"true">>]]

\* The submission dicts a protocol's getSubmitDict() may return.
ScriptPath == <<"logs/", "run.job">>
FullDict(qfj) ==
    [QUEUE_FOR_JOBS |-> <<qfj>>, JOB_SCRIPT |-> ScriptPath,
     JOB_NAME |-> <<"prot">>, JOB_QUEUE |-> <<"batch">>, JOB_HOURS |-> <<"72">>,
     JOB_COMMAND |-> <<"echo">>]
Without(d, key) == [k \in DOMAIN d \ {key} |-> d[k]]
SubmitDicts ==
    {FullDict("N"), FullDict("Y"),
     Without(FullDict("N"), "QUEUE_FOR_JOBS"),
     Without(FullDict("N"), "JOB_SCRIPT"),
     Without(FullDict("N"), "JOB_QUEUE"),
     Without(FullDict("N"), "JOB_HOURS")}

\* os.path.dirname of a script path, as makeFilePath takes it.
DirOf(path) == path[1]
Dirs == {DirOf(ScriptPath)}

\* ---------------------------------------------------------------- protocols
\* The fields of a protocol that launch.py reads through its getters.  A
\* field no branch reads for a host/queue choice keeps one value.
ProtocolConfigs ==
    {[hostName |-> h, useQueue |-> q, isScheduled |-> s, submitDict |-> d, pid |-> i] :
        h \in HostNames, q \in BOOLEAN, s \in BOOLEAN, d \in SubmitDicts, i \in Pids}

Canonical(c) ==
    /\ (c.hostName # LOCALHOST \/ ~c.useQueue) =>
            c.submitDict = FullDict("N") /\ ~c.isScheduled
    /\ (c.hostName # LOCALHOST \/ (c.useQueue /\ ~c.isScheduled)) => c.pid = 101

\* protocol.getProject().path, getDbPath(), strId(), getObjId()
ProjectPath(p) == <<"/data/projects/", "proj">>
DbPath(p) == "Runs/" \o ToString(p) \o "/logs/run.db"
StrId(p) == ToString(p)
Basename(path) == path[Len(path)]

StderrTexts == {<<>>, <<"permission denied">>}
SleepTimes == {0, 30}
ExitCodes == {0, 1}

VARIABLES
    cfg,        \* cfg[p]: the protocol's fields, read-only for launch.py
    jobId,      \* jobId[p]: what protocol.getJobId() returns
    frame,      \* frame[p]: where the call in progress on p is blocked
    files,      \* the script files on disk: path -> text
    dirs,       \* the directories that exist
    launched,   \* launched[p]: how the last launch(p) started its command (history)
    live,       \* live[p]: jobId[p] was stored while its job may still run (history)
    last        \* the latest call once it has completed, NoCall during it (history)

vars == <<cfg, jobId, frame, files, dirs, launched, live, last>>

\* The stdin, stdout and stderr a caller hands over, None or a file.
NoIO == [stdin |-> "None", stdout |-> "None", stderr |-> "None"]
Redirections == {NoIO, [stdin |-> "in.txt", stdout |-> "out.log", stderr |-> "err.log"]}

Idle == [at |-> "idle", op |-> "none", cmd |-> <<>>, pid |-> 0, wait |-> FALSE, io |-> NoIO]
Blocked(at, op, cmd, pid) ==
    [at |-> at, op |-> op, cmd |-> cmd, pid |-> pid, wait |-> FALSE, io |-> NoIO]

NoCall ==
    [op |-> "none", p |-> 0, branch |-> "none", cmd |-> <<>>, outcome |-> "none",
     ret |-> UNKNOWN_JOBID, exc |-> "", msg |-> <<>>, out |-> <<>>, err |-> <<>>,
     rc |-> 0, arg |-> 0, exited |-> FALSE, wait |-> FALSE, given |-> NoIO,
     applied |-> NoIO, gone |-> FALSE]

\* ------------------------------------------------------ internal functions
\* A variant that keeps a protocol that asks for the queue on this machine.
isLocalOrQueue(p) == cfg[p].hostName = LOCALHOST \/ cfg[p].useQueue

isLocal(p) == cfg[p].hostName = LOCALHOST

\* The command of _launchLocal: python pw_protocol_run.py project db id
RunCommand(p) ==
    <<"python", "apps/pw_protocol_run.py">> \o ProjectPath(p) \o <<DbPath(p), StrId(p)>>

\* A variant that schedules the script of _launchLocal.
ScheduleCommandRun(p, initialSleepTime) ==
    RunCommand(p) \o <<"--initial_sleep", ToString(initialSleepTime)>>

\* The command of schedule: python <schedule script> project db id --initial_sleep t
ScheduleCommand(p, initialSleepTime) ==
    <<"python", "apps/pw_schedule_run.py">> \o ProjectPath(p)
        \o <<DbPath(p), StrId(p), "--initial_sleep", ToString(initialSleepTime)>>

\* A variant that hands the whole project path to the remote side.
RemoteCommandFullPath(p, mode) ==
    LET host == HostConfig(cfg[p].hostName)
    IN  <<"ssh", host.address, host.scipionHome \o "/scipion">>
        \o (IF host.scipionConfig # "None" THEN <<"--config", host.scipionConfig>> ELSE <<>>)
        \o <<"runprotocol", "pw_protocol_remote.py", mode>>
        \o ProjectPath(p) \o <<DbPath(p), StrId(p)>>

\* The command of _runRemote for a mode, 'run' or 'stop'.
RemoteCommand(p, mode) ==
    LET host == HostConfig(cfg[p].hostName)
    IN  <<"ssh", host.address, host.scipionHome \o "/scipion">>
        \o (IF host.scipionConfig # "None" THEN <<"--config", host.scipionConfig>> ELSE <<>>)
        \o <<"runprotocol", "pw_protocol_remote.py", mode,
             Basename(ProjectPath(p)), DbPath(p), StrId(p)>>

\* Popen(cmd, shell=True, stdout=PIPE) of _runRemote: stderr is no pipe.
RemoteStderrPiped == FALSE

\* p.communicate()[1]: what the pipe read, None (as false as '') without one.
CapturedErr(errText) == IF RemoteStderrPiped THEN errText ELSE <<>>

\* A variant that sends a scheduled protocol around the queue.
QueueTestScheduled(p) ==
    IF ~cfg[p].useQueue \/ cfg[p].isScheduled THEN "run"
    ELSE IF "QUEUE_FOR_JOBS" \notin DOMAIN cfg[p].submitDict THEN "KeyError"
    ELSE IF cfg[p].submitDict["QUEUE_FOR_JOBS"] = <<"N">> THEN "submit"
    ELSE "run"

\* The test of _launchLocal for the queue: raises KeyError without the key.
QueueTest(p) ==
    IF ~cfg[p].useQueue THEN "run"
    ELSE IF "QUEUE_FOR_JOBS" \notin DOMAIN cfg[p].submitDict THEN "KeyError"
    ELSE IF cfg[p].submitDict["QUEUE_FOR_JOBS"] = <<"N">> THEN "submit"
    ELSE "run"

\* submitDict as _launchLocal hands it to _submit.
MergedSubmitDict(p) ==
    DictSet(DictUpdate(HostConfig(cfg[p].hostName).queuesDefault, cfg[p].submitDict),
            "JOB_COMMAND", RunCommand(p))

\* A variant that opens the script to append.
WriteScriptAppend(fs, scripPath, template) ==
    DictSet(fs, scripPath,
            (IF scripPath \in DOMAIN fs THEN fs[scripPath] ELSE <<>>)
                \o template \o <<"\n\n">>)

\* f = open(scripPath, 'w'); f.write(template + '\n\n'); f.close()
WriteScript(fs, scripPath, template) ==
    DictSet(fs, scripPath, template \o <<"\n\n">>)

\* _submit up to its Popen: the script is rendered, opened, written; then the
\* submission command is rendered.  The first failing step raises.
SubmitPrepare(hostConfig, submitDict) ==
    LET template == Render(hostConfig.submitTemplate, submitDict)
        command == Render(hostConfig.submitCommand, submitDict)
        scripPath == submitDict["JOB_SCRIPT"]
        written == WriteScript(files, scripPath, template.text)
    IN  IF ~template.ok
        THEN [ok |-> FALSE, exc |-> "KeyError", msg |-> <<template.key>>,
              files |-> files, dirs |-> dirs, cmd |-> <<>>]
        ELSE IF "JOB_SCRIPT" \notin DOMAIN submitDict
        THEN [ok |-> FALSE, exc |-> "KeyError", msg |-> <<"JOB_SCRIPT">>,
              files |-> files, dirs |-> dirs, cmd |-> <<>>]
        ELSE IF DirOf(scripPath) \notin dirs
        THEN [ok |-> FALSE, exc |-> "IOError", msg |-> scripPath,
              files |-> files, dirs |-> dirs, cmd |-> <<>>]
        ELSE IF ~command.ok
        THEN [ok |-> FALSE, exc |-> "KeyError", msg |-> <<command.key>>,
              files |-> written, dirs |-> dirs \cup {DirOf(scripPath)}, cmd |-> <<>>]
        ELSE [ok |-> TRUE, exc |-> "", msg |-> <<>>,
              files |-> written, dirs |-> dirs \cup {DirOf(scripPath)},
              cmd |-> command.text]

\* ------------------------------------------------------------------ launch
\* What a call hands back: a value returned or an exception raised.
Return(ret, printed) ==
    [outcome |-> "return", ret |-> ret, exc |-> "", msg |-> printed]
Raise(exc, msg) ==
    [outcome |-> "raise", ret |-> UNKNOWN_JOBID, exc |-> exc, msg |-> msg]

\* The record of a completed call; exited tells whether the command the call
\* spawned had exited when the call returned.
Completed(op, p, branch, cmd, res, out, errText, rc) ==
    [NoCall EXCEPT !.op = op, !.p = p, !.branch = branch, !.cmd = cmd,
                   !.outcome = res.outcome, !.ret = res.ret, !.exc = res.exc,
                   !.msg = res.msg, !.out = out, !.err = errText, !.rc = rc]

\* launch and schedule end in protocol.setJobId(jobId), unless the call raised.
\* A variant that forgets the call.
setJobIdNever(p, res, running) ==
    /\ jobId' = jobId
    /\ live' = live

setJobId(p, res, running) ==
    IF res.outcome = "return"
    THEN /\ jobId' = [jobId EXCEPT ![p] = res.ret]
         /\ live' = [live EXCEPT ![p] = running]
    ELSE /\ jobId' = jobId
         /\ live' = live

\* Popen(command, shell=True, stdout=stdout, stderr=stderr) of _run: what the
\* new process gets; a keyword that is not passed is None.
PopenRedirections(io) == [stdin |-> "None", stdout |-> io.stdout, stderr |-> io.stderr]

\* A variant that returns the pid at once, whatever wait is.
runNoWait(op, branch, p, command, wait, pid, io) ==
    /\ frame' = frame
    /\ last' = [Completed(op, p, branch, command, Return(pid, <<>>), <<>>, <<>>, 0)
                    EXCEPT !.wait = wait, !.given = io, !.applied = PopenRedirections(io)]
    /\ IF op = "stop"
       THEN UNCHANGED <<jobId, live>>
       ELSE setJobId(p, Return(pid, <<>>), TRUE)

\* _run(command, wait, stdin, stdout, stderr): Popen, then p.wait() when wait
\* is set; the pid it returns is stored by launch and schedule.
run(op, branch, p, command, wait, pid, io) ==
    IF wait
    THEN /\ frame' = [frame EXCEPT ![p] = [Blocked("wait", op, command, pid)
                                              EXCEPT !.wait = wait, !.io = io]]
         /\ last' = NoCall
         /\ UNCHANGED <<jobId, live>>
    ELSE /\ frame' = frame
         /\ last' = [Completed(op, p, branch, command, Return(pid, <<>>), <<>>, <<>>, 0)
                         EXCEPT !.wait = wait, !.given = io,
                                !.applied = PopenRedirections(io)]
         /\ IF op = "stop"
            THEN UNCHANGED <<jobId, live>>
            ELSE setJobId(p, Return(pid, <<>>), TRUE)

\* _launchLocal, to the first point where it blocks; wait and the pid of the
\* new process are read by _run only.
launchLocal(p, ios) ==
    LET test == QueueTest(p)
        prep == SubmitPrepare(HostConfig(cfg[p].hostName), MergedSubmitDict(p))
    IN  CASE test = "KeyError" ->
                /\ last' = Completed("launch", p, "none", <<>>,
                                     Raise("KeyError", <<"QUEUE_FOR_JOBS">>), <<>>, <<>>, 0)
                /\ UNCHANGED <<jobId, live, frame, files, dirs, launched>>
          [] test = "submit" ->
                /\ files' = prep.files
                /\ dirs' = prep.dirs
                /\ UNCHANGED <<jobId, live>>
                /\ IF prep.ok
                   THEN /\ frame' = [frame EXCEPT ![p] = Blocked("submit", "launch", prep.cmd, 0)]
                        /\ launched' = [launched EXCEPT ![p] = "queue"]
                        /\ last' = NoCall
                   ELSE /\ frame' = frame
                        /\ launched' = launched
                        /\ last' = Completed("launch", p, "queue", <<>>,
                                             Raise(prep.exc, prep.msg), <<>>, <<>>, 0)
          [] OTHER ->
                /\ launched' = [launched EXCEPT ![p] = "direct"]
                /\ \E wait \in BOOLEAN, pid \in Pids, io \in ios :
                        run("launch", "direct", p, RunCommand(p), wait, pid, io)
                /\ UNCHANGED <<files, dirs>>

\* _launchRemote, to p.communicate().
launchRemote(p) ==
    /\ frame' = [frame EXCEPT ![p] = Blocked("remote", "launch", RemoteCommand(p, "run"), 0)]
    /\ launched' = [launched EXCEPT ![p] = "remote"]
    /\ last' = NoCall
    /\ UNCHANGED <<jobId, live, files, dirs>>

launch(p, ios) ==
    /\ frame[p] = Idle
    /\ cfg' = cfg
    /\ IF isLocal(p) THEN launchLocal(p, ios) ELSE launchRemote(p)

\* _submit from p.communicate() on: the id of the queue, or UNKNOWN_JOBID
\* after printing the decoded output.
SubmitResult(out, returncode) ==
    LET s == SearchDigits(out)
    IN  IF returncode = 0 /\ s.found THEN Return(s.value, <<>>)
        ELSE IF ~Decodable(out) THEN Raise("UnicodeDecodeError", out)
        ELSE Return(UNKNOWN_JOBID, out)

\* The submission command has exited: _submit returns, launch stores the id.
submitReturns(p, outs) ==
    /\ frame[p].at = "submit"
    /\ frame' = [frame EXCEPT ![p] = Idle]
    /\ UNCHANGED <<cfg, files, dirs, launched>>
    /\ \E out \in outs, rc \in ExitCodes :
            LET res == SubmitResult(out, rc)
            IN  /\ last' = [Completed("launch", p, "queue", frame[p].cmd, res, out, <<>>, rc)
                                EXCEPT !.exited = TRUE]
                /\ setJobId(p, res, TRUE)

\* _launchRemote from p.communicate() on: the id after the marker, or an
\* exception.
\* A variant that falls back to UNKNOWN_JOBID as _submit does.
LaunchRemoteResultSoft(out, errText) ==
    LET err == CapturedErr(errText)
        s == SearchMarker(out)
    IN  IF err # <<>> THEN Raise("Exception", err)
        ELSE IF s.found THEN Return(s.value, <<>>)
        ELSE Return(UNKNOWN_JOBID, <<>>)

LaunchRemoteResult(out, errText) ==
    LET err == CapturedErr(errText)
        s == SearchMarker(out)
    IN  IF err # <<>> THEN Raise("Exception", err)
        ELSE IF s.found THEN Return(s.value, <<>>)
        ELSE Raise("Exception", <<"** Couldn't parse ouput: ">> \o out)

\* A variant that runs the ssh command again until its output can be parsed.
remoteReturnsRetry(p, outs) ==
    /\ frame[p].at = "remote"
    /\ UNCHANGED <<cfg, files, dirs, launched>>
    /\ \E out \in outs, errText \in StderrTexts :
            LET res == LaunchRemoteResult(out, errText)
            IN  IF res.outcome = "return"
                THEN /\ frame' = [frame EXCEPT ![p] = Idle]
                     /\ last' = [Completed("launch", p, "remote", frame[p].cmd, res, out,
                                          errText, 0) EXCEPT !.exited = TRUE]
                     /\ setJobId(p, res, TRUE)
                ELSE /\ \E pid \in Pids \ {frame[p].pid} :
                            frame' = [frame EXCEPT ![p].pid = pid]
                     /\ UNCHANGED <<last, jobId, live>>

\* The ssh command has exited: _launchRemote returns, launch stores the id.
remoteReturns(p, outs) ==
    /\ frame[p].at = "remote"
    /\ frame' = [frame EXCEPT ![p] = Idle]
    /\ UNCHANGED <<cfg, files, dirs, launched>>
    /\ \E out \in outs, errText \in StderrTexts :
            LET res == LaunchRemoteResult(out, errText)
            IN  /\ last' = [Completed("launch", p, "remote", frame[p].cmd, res, out,
                                          errText, 0) EXCEPT !.exited = TRUE]
                /\ setJobId(p, res, TRUE)

\* p.wait() of _run returns: the spawned process has exited.
waitReturns(p) ==
    /\ frame[p].at = "wait"
    /\ frame' = [frame EXCEPT ![p] = Idle]
    /\ UNCHANGED <<cfg, files, dirs, launched>>
    /\ IF frame[p].op = "stop"
       THEN /\ last' = [Completed("stop", p, "cancel", frame[p].cmd,
                                  Return(UNKNOWN_JOBID, <<>>), <<>>, <<>>, 0)
                            EXCEPT !.exited = TRUE, !.wait = frame[p].wait]
            /\ UNCHANGED <<jobId, live>>
       ELSE /\ last' = [Completed(frame[p].op, p, "direct", frame[p].cmd,
                                  Return(frame[p].pid, <<>>), <<>>, <<>>, 0)
                            EXCEPT !.exited = TRUE, !.wait = frame[p].wait,
                                   !.given = frame[p].io,
                                   !.applied = PopenRedirections(frame[p].io)]
            /\ setJobId(p, Return(frame[p].pid, <<>>), FALSE)

\* ---------------------------------------------------------------- schedule
schedule(p, sleeps) ==
    /\ frame[p] = Idle
    /\ UNCHANGED <<cfg, files, dirs, launched>>
    /\ \E wait \in BOOLEAN, pid \in Pids, initialSleepTime \in sleeps :
            run("schedule", "direct", p, ScheduleCommand(p, initialSleepTime), wait, pid, NoIO)

\* -------------------------------------------------------------------- stop
\* The test of _stopLocal: cancel in the queue, or kill the process tree.
StopTest(p) ==
    IF cfg[p].useQueue /\ ~cfg[p].isScheduled THEN "cancel" ELSE "kill"

\* A variant that binds JOB_ID to the protocol's pid.
CancelDictPid(p) == [JOB_ID |-> <<ToString(cfg[p].pid)>>]

\* {'JOB_ID': jobId} with jobId = protocol.getJobId()
CancelDict(p) == [JOB_ID |-> <<ToString(jobId[p])>>]

\* A variant that raises when the process is gone.
killWithChildsStrict(pid, gone) ==
    IF gone THEN Raise("NoSuchProcess", <<ToString(pid)>>) ELSE Return(UNKNOWN_JOBID, <<>>)

\* process.killWithChilds(pid): kills the process and its descendants; a pid
\* that no process has is no error.
killWithChilds(pid, gone) == Return(UNKNOWN_JOBID, <<>>)

stopLocal(p) ==
    IF StopTest(p) = "cancel"
    THEN LET cancelCmd == Render(HostConfig(cfg[p].hostName).cancelCommand, CancelDict(p))
         IN  IF cancelCmd.ok
             THEN \E pid \in Pids :
                        run("stop", "cancel", p, cancelCmd.text, TRUE, pid, NoIO)
             ELSE /\ last' = Completed("stop", p, "cancel", <<>>,
                                       Raise("KeyError", <<cancelCmd.key>>), <<>>, <<>>, 0)
                  /\ UNCHANGED <<jobId, live, frame>>
    ELSE /\ \E gone \in BOOLEAN :
                last' = [Completed("stop", p, "kill", <<>>,
                                   killWithChilds(cfg[p].pid, gone), <<>>, <<>>, 0)
                            EXCEPT !.arg = cfg[p].pid, !.gone = gone]
         /\ UNCHANGED <<jobId, live, frame>>

\* A variant that forgets the job id once the stop is sent.
stopRemoteClears(p) ==
    /\ last' = Completed("stop", p, "remote", RemoteCommand(p, "stop"),
                         Return(UNKNOWN_JOBID, <<>>), <<>>, <<>>, 0)
    /\ jobId' = [jobId EXCEPT ![p] = UNKNOWN_JOBID]
    /\ UNCHANGED <<live, frame>>

\* _stopRemote: _runRemote's Popen, and nothing after it.
stopRemote(p) ==
    /\ last' = Completed("stop", p, "remote", RemoteCommand(p, "stop"),
                         Return(UNKNOWN_JOBID, <<>>), <<>>, <<>>, 0)
    /\ UNCHANGED <<jobId, live, frame>>

stop(p) ==
    /\ frame[p] = Idle
    /\ UNCHANGED <<cfg, files, dirs, launched>>
    /\ IF isLocal(p) THEN stopLocal(p) ELSE stopRemote(p)

\* ----------------------------------------------------------- specifications
InitOn(P, configs) ==
    /\ cfg \in [P -> configs]
    /\ jobId = [p \in P |-> UNKNOWN_JOBID]
    /\ frame = [p \in P |-> Idle]
    /\ files = EmptyDict
    /\ dirs \in SUBSET Dirs
    /\ launched = [p \in P |-> "none"]
    /\ live = [p \in P |-> FALSE]
    /\ last = NoCall

\* One protocol, every output of the helper commands up to MaxOutLen.
Init == InitOn({1}, {c \in ProtocolConfigs : Canonical(c)})

Next ==
    \E p \in {1} :
        \/ launch(p, Redirections)
        \/ submitReturns(p, Outputs)
        \/ remoteReturns(p, Outputs)
        \/ waitReturns(p)
        \/ schedule(p, SleepTimes)
        \/ stop(p)

Spec == Init /\ [][Next]_vars

\* Two protocols, the calls on one interleaved with the calls on the other;
\* the helper commands print nothing, a number, or the marker and a number.
\* Launches pass no redirections and schedules sleep 0 seconds.
PairOutputs == {<<>>, <<"1">>, <<MARK, "1">>}

\* Their submission dicts hold every key the templates use.
PairConfigs ==
    {c \in ProtocolConfigs :
        Canonical(c) /\ c.pid = 101
                     /\ c.hostName \in {LOCALHOST, "cluster"}
                     /\ "JOB_QUEUE" \in DOMAIN c.submitDict
                     /\ "JOB_HOURS" \in DOMAIN c.submitDict
                     /\ "JOB_SCRIPT" \in DOMAIN c.submitDict
                     /\ "QUEUE_FOR_JOBS" \in DOMAIN c.submitDict}

InitPair == InitOn({1, 2}, PairConfigs)

NextPair ==
    \E p \in {1, 2} :
        \/ launch(p, {NoIO})
        \/ submitReturns(p, PairOutputs)
        \/ remoteReturns(p, PairOutputs)
        \/ waitReturns(p)
        \/ schedule(p, {0})
        \/ stop(p)

SpecPair == InitPair /\ [][NextPair]_vars

\* One protocol and the outputs of PairOutputs; a helper command (the
\* submission command, the ssh command of a launch, the cancel command) that
\* a call waits for exits in the end.  The process that a launch or a schedule
\* with wait set waits for is the job itself, which may run for ever.
helperExits(p) ==
    \/ submitReturns(p, PairOutputs)
    \/ remoteReturns(p, PairOutputs)
    \/ (frame[p].op = "stop" /\ waitReturns(p))

NextLive ==
    \E p \in {1} :
        \/ launch(p, Redirections)
        \/ submitReturns(p, PairOutputs)
        \/ remoteReturns(p, PairOutputs)
        \/ waitReturns(p)
        \/ schedule(p, SleepTimes)
        \/ stop(p)

SpecLive == Init /\ [][NextLive]_vars /\ WF_vars(helperExits(1))

\* ------------------------------------------------------------------ claims
\* The digits s[i..k] read as a decimal number: the sum of digit * 10^place.
RECURSIVE Pow10(_)
Pow10(n) == IF n = 0 THEN 1 ELSE 10 * Pow10(n - 1)

RECURSIVE DecimalValue(_, _, _)
DecimalValue(s, i, k) ==
    IF i > k THEN 0 ELSE DigitVal(s[i]) * Pow10(k - i) + DecimalValue(s, i + 1, k)

\* s[i..k] is a run of digits that no digit follows.
IsRun(s, i, k) ==
    /\ i <= k /\ k <= Len(s)
    /\ \A j \in i..k : s[j] \in Digits
    /\ (k = Len(s) \/ s[k + 1] \notin Digits)

MarkerAt(s, i) == i < Len(s) /\ s[i] = MARK /\ s[i + 1] \in Digits
FirstMarkerAt(s, i) == MarkerAt(s, i) /\ \A j \in 1..(i - 1) : ~MarkerAt(s, j)
FirstDigitAt(s, i) == s[i] \in Digits /\ \A j \in 1..(i - 1) : s[j] \notin Digits

Called == DOMAIN cfg

\* The stop branch that undoes a launch branch.
StopBranchFor(branch) ==
    IF branch = "direct" THEN "kill" ELSE IF branch = "queue" THEN "cancel" ELSE "remote"

\* C1: a stop of a launched protocol (whose fields are the ones launch read)
\* takes the branch that corresponds to the branch launch took: kill for a
\* direct run, cancel for a queue submission, remote stop for a remote run.
C1_StopMirrorsLaunch ==
    \A p \in Called :
        launched[p] # "none" =>
            /\ (last.op = "stop" /\ last.p = p)
                    => last.branch = StopBranchFor(launched[p])
            /\ (frame[p].op = "stop") => StopBranchFor(launched[p]) = "cancel"

\* C2 as stated: two launched protocols that agree on the host (name and
\* address) and on the queue flag were launched with the same strategy.
C2_StrategyFromHostAndFlag ==
    \A p, q \in Called :
        (/\ launched[p] # "none" /\ launched[q] # "none"
         /\ cfg[p].hostName = cfg[q].hostName
         /\ HostConfig(cfg[p].hostName).address = HostConfig(cfg[q].hostName).address
         /\ cfg[p].useQueue = cfg[q].useQueue)
            => launched[p] = launched[q]

QueueForJobs(p) ==
    IF "QUEUE_FOR_JOBS" \in DOMAIN cfg[p].submitDict
    THEN cfg[p].submitDict["QUEUE_FOR_JOBS"] ELSE <<>>

\* C2 amended: two launched protocols that agree on the host name, on the
\* queue flag and on the QUEUE_FOR_JOBS entry of the submission dict were
\* launched with the same strategy, whatever their other fields are.
C2_StrategyFromHostFlagAndPolicy ==
    \A p, q \in Called :
        (/\ launched[p] # "none" /\ launched[q] # "none"
         /\ cfg[p].hostName = cfg[q].hostName
         /\ cfg[p].useQueue = cfg[q].useQueue
         /\ QueueForJobs(p) = QueueForJobs(q))
            => launched[p] = launched[q]

\* Two protocols submitted to the queue that differ in the scheduled flag.
C2_Witness ==
    \E p, q \in Called :
        /\ launched[p] = "queue" /\ launched[q] = "queue"
        /\ QueueForJobs(p) = QueueForJobs(q)
        /\ cfg[p].isScheduled /\ ~cfg[q].isScheduled

\* C3: the step in which a launch returns writes jobId of its protocol, and
\* only that, to the value it returns; the step in which a launch starts to
\* wait for its command writes no jobId; no step writes another field.
C3_LaunchStoresWhatItReturns ==
    [][/\ (last' # last /\ last'.op = "launch" /\ last'.outcome = "return")
            => jobId' = [jobId EXCEPT ![last'.p] = last'.ret]
       /\ (\E p \in Called : frame[p] = Idle /\ frame'[p].op = "launch")
            => jobId' = jobId
       /\ cfg' = cfg]_vars

\* A launch returned an id of its own and the protocol holds it.
C3_Witness ==
    /\ last.op = "launch" /\ last.outcome = "return"
    /\ last.ret # UNKNOWN_JOBID
    /\ jobId[last.p] = last.ret

\* C4: after a launch that raised, the protocol's jobId is UNKNOWN_JOBID.
C4_FailedLaunchLeavesUnknown ==
    (last.op = "launch" /\ last.outcome = "raise")
        => jobId[last.p] = UNKNOWN_JOBID

\* C5: a jobId that is an id of a job that may still run is not replaced.
C5_JobIdWriteOnce ==
    [][\A p \in Called :
            (jobId[p] # UNKNOWN_JOBID /\ live[p]) => jobId'[p] = jobId[p]]_vars

\* C6: a remote launch whose command wrote to stderr raises an exception
\* that carries the text, whatever the command wrote to stdout.
C6_RemoteStderrRaises ==
    (last.op = "launch" /\ last.branch = "remote" /\ last.err # <<>>)
        => (last.outcome = "raise" /\ last.msg = last.err)

\* C7: a remote launch whose command wrote nothing to stderr and a marker
\* with digits to stdout returns the decimal value of the digits after the
\* first such marker, and the protocol holds it as its jobId.
C7_RemoteIdParsed ==
    (/\ last.op = "launch" /\ last.branch = "remote" /\ last.err = <<>>
     /\ \E i \in 1..Len(last.out) : MarkerAt(last.out, i))
        => /\ last.outcome = "return"
           /\ jobId[last.p] = last.ret
           /\ \E i, k \in 1..Len(last.out) :
                /\ FirstMarkerAt(last.out, i)
                /\ IsRun(last.out, i + 1, k)
                /\ last.ret = DecimalValue(last.out, i + 1, k)

\* The output held two markers with different ids; the first one was taken.
C7_Witness ==
    /\ last.op = "launch" /\ last.branch = "remote" /\ last.err = <<>>
    /\ Len(last.out) = 4
    /\ MarkerAt(last.out, 1) /\ MarkerAt(last.out, 3)
    /\ last.out[2] # last.out[4]
    /\ jobId[last.p] = DigitVal(last.out[2])

\* C8: a remote launch returns an id parsed from a marker, never
\* UNKNOWN_JOBID, or raises; with an empty stderr and no marker in stdout it
\* raises an exception whose message ends with the raw stdout.
C8_RemoteNeverUnknown ==
    (last.op = "launch" /\ last.branch = "remote")
        => /\ \/ last.outcome = "raise"
              \/ /\ last.outcome = "return"
                 /\ last.ret # UNKNOWN_JOBID
                 /\ \E i \in 1..Len(last.out) : MarkerAt(last.out, i)
           /\ (last.err = <<>> /\ \A i \in 1..Len(last.out) : ~MarkerAt(last.out, i))
                => /\ last.outcome = "raise"
                   /\ Len(last.msg) > Len(last.out)
                   /\ SubSeq(last.msg, Len(last.msg) - Len(last.out) + 1,
                             Len(last.msg)) = last.out

\* The output held digits and no marker; the launch raised.
C8_Witness ==
    /\ last.op = "launch" /\ last.branch = "remote" /\ last.err = <<>>
    /\ Len(last.out) > 0
    /\ \A i \in 1..Len(last.out) : last.out[i] \in Digits
    /\ last.outcome = "raise"

\* C9: a submission whose command exited with 0 and printed a digit returns
\* the decimal value of the first maximal run of digits of the output.
C9_QueueIdParsed ==
    (/\ last.op = "launch" /\ last.branch = "queue" /\ last.cmd # <<>>
     /\ last.rc = 0
     /\ \E i \in 1..Len(last.out) : last.out[i] \in Digits)
        => /\ last.outcome = "return"
           /\ \E i, k \in 1..Len(last.out) :
                /\ FirstDigitAt(last.out, i)
                /\ IsRun(last.out, i, k)
                /\ last.ret = DecimalValue(last.out, i, k)

\* The output held a run of two digits and a later digit; the run was taken.
C9_Witness ==
    /\ last.op = "launch" /\ last.branch = "queue" /\ last.rc = 0
    /\ Len(last.out) = 4
    /\ last.out[1] \in Digits /\ last.out[2] \in Digits
    /\ last.out[3] \notin Digits /\ last.out[4] \in Digits
    /\ last.out[1] # last.out[2]
    /\ last.ret = DecimalValue(last.out, 1, 2)

\* C10: a submission whose command exited with another status than 0, or
\* printed no digit, returns UNKNOWN_JOBID with the output as its warning and
\* raises nothing, and the protocol's jobId is UNKNOWN_JOBID after it.
C10_QueueSoftFail ==
    (/\ last.op = "launch" /\ last.branch = "queue" /\ last.cmd # <<>>
     /\ (last.rc # 0 \/ \A i \in 1..Len(last.out) : last.out[i] \notin Digits))
        => /\ last.outcome = "return"
           /\ last.ret = UNKNOWN_JOBID
           /\ last.msg = last.out
           /\ jobId[last.p] = UNKNOWN_JOBID

\* A protocol that launch submits to the queue.
Submits(p) == isLocal(p) /\ QueueTest(p) = "submit"

\* A template of the host names a placeholder the merged dict does not hold.
TemplateLacks(p) ==
    LET host == HostConfig(cfg[p].hostName)
        held == DOMAIN cfg[p].submitDict \cup DOMAIN host.queuesDefault \cup {"JOB_COMMAND"}
    IN  \/ \E i \in 1..Len(host.submitTemplate) :
                host.submitTemplate[i].ph /\ host.submitTemplate[i].s \notin held
        \/ \E i \in 1..Len(host.submitCommand) :
                host.submitCommand[i].ph /\ host.submitCommand[i].s \notin held

SubmitLacks(p) ==
    \/ TemplateLacks(p)
    \/ "JOB_SCRIPT" \notin DOMAIN cfg[p].submitDict \cup DOMAIN HostConfig(cfg[p].hostName).queuesDefault

\* C11: a submission whose templates name a placeholder that the merged dict
\* lacks, or whose dict lacks JOB_SCRIPT, never spawns the submission command,
\* and the launch raises the missing-key error.
C11_MissingPlaceholderAborts ==
    \A p \in Called :
        (Submits(p) /\ SubmitLacks(p)) =>
            /\ frame[p].at # "submit"
            /\ (last.op = "launch" /\ last.p = p)
                    => /\ last.outcome = "raise" /\ last.exc = "KeyError"
                       /\ last.cmd = <<>>

\* C12: while the protocol's submission templates name a placeholder that the
\* merged dict lacks, no step creates or changes a file.
C12_MissingPlaceholderWritesNothing ==
    [][(\E p \in Called : Submits(p) /\ TemplateLacks(p)) => files' = files]_vars

\* C13: a submission whose dict holds every placeholder has written its
\* script, in a directory that exists, whether or not the directory existed
\* before the launch.
C13_ScriptDirCreated ==
    (last.op = "launch" /\ Submits(last.p) /\ ~SubmitLacks(last.p))
        => /\ MergedSubmitDict(last.p)["JOB_SCRIPT"] \in DOMAIN files
           /\ DirOf(MergedSubmitDict(last.p)["JOB_SCRIPT"]) \in dirs

\* The script of a protocol's submission: its path, and the text of the file
\* after one submission.
ScriptOf(p) == MergedSubmitDict(p)["JOB_SCRIPT"]
ScriptTextOf(p) ==
    Subst(HostConfig(cfg[p].hostName).submitTemplate, MergedSubmitDict(p), 1) \o <<"\n\n">>

\* C14: after any step that writes a file or spawns the submission command,
\* the script of the protocol holds the rendered template and the two line
\* ends, once, however often it was submitted; a launch that finds the script
\* on disk does not raise before it spawns the submission command.
C14_PersistOverwrites ==
    [][\A p \in Called :
            (Submits(p) /\ ~SubmitLacks(p)) =>
                /\ (files' # files \/ frame'[p].at = "submit")
                        => files'[ScriptOf(p)] = ScriptTextOf(p)
                /\ (frame[p] = Idle /\ frame'[p] = Idle /\ files # EmptyDict)
                        => /\ ScriptOf(p) \in DOMAIN files
                           /\ ~(last'.op = "launch" /\ last'.outcome = "raise")]_vars

\* A second submission is in progress: the first one returned an id of the
\* queue, and the script holds the text of one submission.
C14_Witness ==
    \E p \in Called :
        /\ Submits(p) /\ frame[p].at = "submit"
        /\ jobId[p] # UNKNOWN_JOBID /\ jobId[p] \notin Pids
        /\ files[ScriptOf(p)] = ScriptTextOf(p)

\* C15: a stop of a local protocol that asks for the queue and is scheduled
\* does nothing: it runs no cancel command and kills no process.
C15_StopScheduledIsNoOp ==
    \A p \in Called :
        (isLocal(p) /\ cfg[p].useQueue /\ cfg[p].isScheduled) =>
            /\ frame[p].op # "stop"
            /\ (last.op = "stop" /\ last.p = p)
                    => (last.branch \notin {"cancel", "kill"} /\ last.cmd = <<>>)

\* The cancel command of the host for the id the protocol holds.
CancelCommandOf(p) == <<"qdel ", ToString(jobId[p])>>

\* C16: a stop of a local protocol that asks for the queue and is not
\* scheduled spawns the host's cancel command with the protocol's jobId in the
\* place of JOB_ID, waits for it, and returns once the command has exited.
C16_CancelRendersJobId ==
    \A p \in Called :
        (isLocal(p) /\ cfg[p].useQueue /\ ~cfg[p].isScheduled) =>
            /\ frame[p].op = "stop"
                    => (frame[p].at = "wait" /\ frame[p].cmd = CancelCommandOf(p))
            /\ (last.op = "stop" /\ last.p = p)
                    => /\ last.branch = "cancel"
                       /\ last.outcome = "return"
                       /\ last.cmd = CancelCommandOf(p)
                       /\ last.exited

\* A protocol submitted to the queue got an id of the queue, and its stop has
\* run the cancel command for that id.
C16_Witness ==
    \E p \in Called :
        /\ launched[p] = "queue"
        /\ jobId[p] # UNKNOWN_JOBID /\ jobId[p] \notin Pids
        /\ last.op = "stop" /\ last.p = p /\ last.exited
        /\ last.cmd = CancelCommandOf(p)

\* C17: a stop that kills the process tree of a protocol whose launch ran its
\* command directly hands the pid that launch stored as jobId to the kill.
C17_KillsStoredPid ==
    (/\ last.op = "stop" /\ last.branch = "kill"
     /\ launched[last.p] = "direct" /\ jobId[last.p] \in Pids)
        => last.arg = jobId[last.p]

\* A protocol whose host is another machine.
NonLocal(p) == cfg[p].hostName # LOCALHOST

\* cmd is the ssh command for a mode: ssh, the address, the remote scipion,
\* --config and the file if and only if the host has one, then runprotocol,
\* the script, the mode, the last component of the project path, the db path
\* and the id.
RemoteShape(cmd, p, mode) ==
    LET host == HostConfig(cfg[p].hostName)
        hasConfig == host.scipionConfig # "None"
        n == Len(cmd)
    IN  /\ n = IF hasConfig THEN 11 ELSE 9
        /\ cmd[1] = "ssh" /\ cmd[2] = host.address
        /\ cmd[3] = host.scipionHome \o "/scipion"
        /\ hasConfig <=> \E i \in 1..n : cmd[i] = "--config"
        /\ hasConfig => (cmd[4] = "--config" /\ cmd[5] = host.scipionConfig)
        /\ cmd[n - 5] = "runprotocol" /\ cmd[n - 4] = "pw_protocol_remote.py"
        /\ cmd[n - 3] = mode
        /\ cmd[n - 2] = ProjectPath(p)[Len(ProjectPath(p))]
        /\ \A i \in 1..n : cmd[i] # ProjectPath(p)[1]
        /\ cmd[n - 1] = DbPath(p) /\ cmd[n] = StrId(p)

\* C18: a stop of a protocol on another machine spawns the ssh command of
\* launch with the mode stop, and returns, whatever the command prints, once
\* the command has exited.
C18_RemoteStopSynchronous ==
    (last.op = "stop" /\ NonLocal(last.p))
        => /\ last.branch = "remote"
           /\ RemoteShape(last.cmd, last.p, "stop")
           /\ last.outcome = "return"
           /\ last.exited

\* C19: no step of a protocol on another machine writes a file or creates a
\* directory; a launch of it, with or without the queue flag, blocks on the
\* ssh command of the mode run and on no other command, and completes only
\* when that command has exited.
C19_RemoteLaunchOnlyDispatches ==
    [][\A p \in Called :
            NonLocal(p) =>
                /\ files' = files /\ dirs' = dirs
                /\ launched'[p] \in {"none", "remote"}
                /\ frame'[p].op = "launch"
                        => /\ frame'[p].at = "remote"
                           /\ RemoteShape(frame'[p].cmd, p, "run")
                /\ (last' # last /\ last'.op = "launch" /\ last'.p = p)
                        => /\ frame[p].at = "remote"
                           /\ last'.branch = "remote"
                           /\ last'.cmd = frame[p].cmd]_vars

\* A protocol on another machine that asks for the queue was launched and
\* got its id from the remote side; no script was written.
C19_Witness ==
    \E p \in Called :
        /\ NonLocal(p) /\ cfg[p].useQueue
        /\ last.op = "launch" /\ last.p = p /\ last.outcome = "return"
        /\ jobId[p] = last.ret /\ last.ret # UNKNOWN_JOBID
        /\ files = EmptyDict

\* C20: the ssh command of a launch has the shape for the mode run, the ssh
\* command of a stop the shape for the mode stop.
C20_RemoteCommandShape ==
    \A p \in Called :
        /\ frame[p].at = "remote" => RemoteShape(frame[p].cmd, p, "run")
        /\ (last.p = p /\ last.branch = "remote" /\ last.op = "launch")
                => RemoteShape(last.cmd, p, "run")
        /\ (last.p = p /\ last.branch = "remote" /\ last.op = "stop")
                => RemoteShape(last.cmd, p, "stop")

\* A host without a configuration file: the stop command of a launched
\* protocol has no --config part.
C20_Witness ==
    \E p \in Called :
        /\ HostConfig(cfg[p].hostName).scipionConfig = "None"
        /\ launched[p] = "remote"
        /\ last.op = "stop" /\ last.p = p
        /\ Len(last.cmd) = 9 /\ last.cmd[6] = "stop"

\* A protocol whose launch has spawned, or is running, a submission command.
Submitted(p) == frame[p].at = "submit" \/ launched[p] = "queue"

\* C21: the dict of a submission holds JOB_COMMAND and JOB_SCRIPT, and two
\* protocols that were submitted did not write their scripts to one file.
C21_ScriptPathPerJob ==
    /\ \A p \in Called :
            Submitted(p) => {"JOB_COMMAND", "JOB_SCRIPT"} \subseteq DOMAIN MergedSubmitDict(p)
    /\ \A p, q \in Called :
            (p # q /\ Submitted(p) /\ Submitted(q)) => ScriptOf(p) # ScriptOf(q)

\* C22: a launch that ran its command directly returned the pid of the new
\* process, a positive number, and the protocol holds it; it returned after
\* the process had exited if and only if wait was set; while it waits, the
\* process it waits for is the one whose pid it will return.
C22_DirectSpawnReturnsPid ==
    /\ (last.op = "launch" /\ last.branch = "direct")
            => /\ last.outcome = "return"
               /\ last.ret \in Pids /\ last.ret > 0
               /\ jobId[last.p] = last.ret
               /\ last.wait <=> last.exited
    /\ \A p \in Called :
            (frame[p].op = "launch" /\ frame[p].at = "wait")
                => (frame[p].wait /\ frame[p].pid \in Pids /\ frame[p].cmd = RunCommand(p))

\* A launch with wait set has returned, after the exit of its process.
C22_Witness ==
    /\ last.op = "launch" /\ last.branch = "direct"
    /\ last.wait /\ last.exited
    /\ jobId[last.p] = last.ret

\* cmd runs the schedule script, not the run script, on the protocol's
\* project path, db path and id, with a delay.
ScheduleShape(cmd, p) ==
    /\ Len(cmd) = 8
    /\ cmd[1] = "python" /\ cmd[2] = "apps/pw_schedule_run.py"
    /\ cmd[2] # RunCommand(p)[2]
    /\ <<cmd[3], cmd[4]>> = ProjectPath(p)
    /\ cmd[5] = DbPath(p) /\ cmd[6] = StrId(p)
    /\ cmd[7] = "--initial_sleep"
    /\ \E t \in SleepTimes : cmd[8] = ToString(t)

\* C23: a schedule of any protocol, local or not, with or without the queue
\* flag, spawns the schedule command directly: it writes no file, blocks only
\* to wait for that command, and when it returns the protocol holds the pid
\* it returned.
C23_ScheduleIsLocalDirect ==
    [][\A p \in Called :
            /\ frame'[p].op = "schedule"
                    => /\ frame'[p].at = "wait"
                       /\ ScheduleShape(frame'[p].cmd, p)
                       /\ files' = files /\ dirs' = dirs /\ jobId' = jobId
            /\ (last' # last /\ last'.op = "schedule" /\ last'.p = p)
                    => /\ last'.branch = "direct" /\ last'.outcome = "return"
                       /\ ScheduleShape(last'.cmd, p)
                       /\ files' = files /\ dirs' = dirs
                       /\ last'.ret \in Pids
                       /\ jobId'[p] = last'.ret]_vars

\* A protocol on another machine that asks for the queue was scheduled with
\* a delay of 30 and holds the pid of the schedule command.
C23_Witness ==
    \E p \in Called :
        /\ NonLocal(p) /\ cfg[p].useQueue
        /\ last.op = "schedule" /\ last.p = p
        /\ last.cmd[8] = "30"
        /\ jobId[p] = last.ret /\ last.ret \in Pids

\* C24: while the submission command of a protocol runs, the script it was
\* given holds the text rendered from that protocol's dict, whatever the calls
\* on other protocols do meanwhile; and a launch that returned left its
\* result in its own protocol's jobId.
C24_LaunchesDoNotInterfere ==
    /\ \A p \in Called :
            frame[p].at = "submit" => files[ScriptOf(p)] = ScriptTextOf(p)
    /\ (last.op = "launch" /\ last.outcome = "return") => jobId[last.p] = last.ret

\* C25: a stop that kills the tree of a pid no process has any more returns
\* and raises nothing.
C25_StopToleratesGoneProcess ==
    (last.op = "stop" /\ last.branch = "kill" /\ last.gone)
        => (last.outcome = "return" /\ last.exc = "")

\* A protocol was launched directly with wait set, its process has exited,
\* and a stop has killed the tree of a pid that is gone.
C25_Witness ==
    /\ last.op = "stop" /\ last.branch = "kill" /\ last.gone
    /\ launched[last.p] = "direct"
    /\ ~live[last.p] /\ jobId[last.p] \in Pids

\* The value the submission of p gives a key: the built command for
\* JOB_COMMAND, else the protocol's own value, else the host's default.
HandedValue(p, key) ==
    IF key = "JOB_COMMAND" THEN RunCommand(p)
    ELSE IF key \in DOMAIN cfg[p].submitDict THEN cfg[p].submitDict[key]
    ELSE HostConfig(cfg[p].hostName).queuesDefault[key]

\* C26: the script a submission writes shows the dict _submit was handed: the
\* name, the queue and the memory are the protocol's values where its dict has
\* them and the host's defaults where it has not, and the command is the
\* built run command whatever the two dicts give for JOB_COMMAND; no step
\* changes the protocol's dict.
C26_MergedDescriptor ==
    [][/\ cfg' = cfg
       /\ files' # files =>
            \A p \in Called :
                (Submits(p) /\ ~SubmitLacks(p)) =>
                    files'[cfg[p].submitDict["JOB_SCRIPT"]] =
                        <<"#PBS -N ">> \o HandedValue(p, "JOB_NAME")
                        \o <<"#PBS -q ">> \o HandedValue(p, "JOB_QUEUE")
                        \o <<"#PBS -l mem=">> \o HandedValue(p, "JOB_MEMORY")
                        \o HandedValue(p, "JOB_COMMAND") \o <<"\n\n">>]_vars

\* A script was written for a protocol whose dict has a JOB_COMMAND of its
\* own and another JOB_NAME than the host's default, and no JOB_MEMORY.
C26_Witness ==
    \E p \in Called :
        /\ Submitted(p) /\ ScriptOf(p) \in DOMAIN files
        /\ "JOB_COMMAND" \in DOMAIN cfg[p].submitDict
        /\ cfg[p].submitDict["JOB_COMMAND"] # RunCommand(p)
        /\ cfg[p].submitDict["JOB_NAME"] # HostConfig(cfg[p].hostName).queuesDefault["JOB_NAME"]
        /\ "JOB_MEMORY" \notin DOMAIN cfg[p].submitDict

\* C27: the process of a launch that ran its command directly got the stdin,
\* the stdout and the stderr that the caller handed to launch.
C27_RedirectionsApplied ==
    (last.op = "launch" /\ last.branch = "direct") => last.applied = last.given

\* C28: the cancel command of a stop that follows a launch or a schedule of
\* the protocol is rendered with an id that the queue gave to a submission of
\* the protocol: the protocol was submitted, and the id is neither a pid of a
\* spawned process nor UNKNOWN_JOBID.
C28_CancelOnlyQueueIds ==
    \A p \in Called :
        (frame[p].op = "stop" /\ (launched[p] # "none" \/ jobId[p] # UNKNOWN_JOBID)) =>
            /\ launched[p] = "queue"
            /\ jobId[p] \notin Pids \cup {UNKNOWN_JOBID}
            /\ frame[p].cmd # <<"qdel ", ToString(UNKNOWN_JOBID)>>
            /\ \A i \in Pids : frame[p].cmd # <<"qdel ", ToString(i)>>

\* C29: a step of a stop, the one that starts it or the one in which it
\* returns, leaves the jobId and the fields of every protocol as they were.
C29_StopWritesNothing ==
    [][(\/ last'.op = "stop"
        \/ \E p \in Called : frame[p].op = "stop" \/ frame'[p].op = "stop")
            => (jobId' = jobId /\ cfg' = cfg)]_vars

\* A stop has returned on a launched protocol that holds a job id.
C29_Witness ==
    /\ last.op = "stop" /\ last.outcome = "return"
    /\ jobId[last.p] # UNKNOWN_JOBID
    /\ launched[last.p] # "none"

\* A step that leaves a launch blocked on its helper command writes no jobId
\* and completes no launch.
BlockedLaunchWritesNothing ==
    \A p \in {1} :
        frame'[p].at \in {"submit", "remote"}
            => /\ jobId'[p] = jobId[p]
               /\ ~(last'.op = "launch" /\ last'.p = p)

\* C30 as stated: if every helper command exits in the end, every call that
\* is in progress returns or raises in the end; and while the helper command
\* of a launch has not exited the launch has not returned and the jobId is
\* not written.
C30_EveryCallReturns ==
    /\ \A p \in {1} : (frame[p] # Idle) ~> (frame[p] = Idle)
    /\ [][BlockedLaunchWritesNothing]_vars

\* C30 amended: if every helper command exits in the end, every call that
\* waits for a helper command (a launch on its submission or ssh command, a
\* stop on its cancel command) returns or raises in the end; and while the
\* helper command of a launch has not exited the launch has not returned and
\* the jobId is not written.
C30_HelperCallsReturn ==
    /\ \A p \in {1} :
            (\/ frame[p].at \in {"submit", "remote"}
             \/ (frame[p].at = "wait" /\ frame[p].op = "stop"))
                ~> (frame[p] = Idle)
    /\ [][BlockedLaunchWritesNothing]_vars

\* A launch returned after the exit of its submission or ssh command.
C30_Witness ==
    /\ last.op = "launch" /\ last.branch \in {"queue", "remote"}
    /\ last.exited /\ last.cmd # <<>>
    /\ frame[last.p] = Idle

====
